---- MODULE Spec2Model ----
(***************************************************************************)
(* Model of the Telegram /text broadcast bot: the two tools                *)
(* (checkTelegramAdminTool, sendTelegramMessageTool), the two workflow     *)
(* steps (useAgent, sendReply) and the workflow that chains them.          *)
(*                                                                         *)
(* Texts are sequences of one-character strings.  An optional field of a   *)
(* JavaScript object is a set with at most one element: {} is "absent".    *)
(* The two emoji of the fixed replies are written by their code points.    *)
(***************************************************************************)
EXTENDS Naturals, Sequences, FiniteSets

VARIABLES
    token,        \* process.env.TELEGRAM_BOT_TOKEN is set
    pc,           \* position of the workflow run: idle, useAgent, oraclePending,
                  \* sendReply, sendPending, done, failed
    toolPc,       \* position of the sendTelegramMessageTool call: idle, pending, done
    req,          \* inputData of the run: message, chatId, userId
    oracleCalls,  \* calls of checkTelegramAdminTool made by the agent in this run
    oracleFetches,\* getChatMember requests issued in this run
    verdict,      \* {} or the last result of checkTelegramAdminTool in this run
    response,     \* {} or the text useAgent returned
    sends,        \* sendMessage requests issued by sendReply in this run (their texts)
    outcome,      \* {} or the result of sendReply
    history,      \* memory of the run's thread: the exchanges finished on it
    toolSends,    \* sendMessage requests issued by the sendTelegramMessageTool call
    oracleAnswer, \* {} or the remote answer to the last getChatMember request
    sendAnswer,   \* {} or the remote answer to the sendMessage request of sendReply
    toolOutcome,  \* {} or the result of the last sendTelegramMessageTool call
    toolInput     \* {} or the remote answer to the sendMessage request of that call

vars == <<token, pc, toolPc, req, oracleCalls, oracleFetches, verdict, response, sends, outcome,
          history, toolSends, oracleAnswer, sendAnswer, toolOutcome, toolInput>>

-----------------------------------------------------------------------------
(* Bounds of the model *)

\* runs started on one thread
MaxRequests == 2

-----------------------------------------------------------------------------
(* Optional values *)

None == {}

Some(x) == {x}

-----------------------------------------------------------------------------
(* Texts *)

DenialText ==
    <<"U+26D4", " ", "O", "n", "l", "y", " ", "a", "d", "m", "i", "n", "s",
      " ", "c", "a", "n", " ", "u", "s", "e", " ", "t", "h", "i", "s", " ",
      "c", "o", "m", "m", "a", "n", "d", ".">>

UsageText ==
    <<"U+26A0", "U+FE0F", " ", "U", "s", "a", "g", "e", ":", " ", "/", "t",
      "e", "x", "t", " ", "<", "y", "o", "u", "r", " ", "m", "e", "s", "s",
      "a", "g", "e", ">">>

CommandToken == <<"/", "t", "e", "x", "t">>

Messages ==
    { <<"/", "t", "e", "x", "t">>,
      <<"/", "t", "e", "x", "t", " ", " ", " ">>,
      <<"/", "t", "e", "x", "t", " ", "H", "e", "l", "l", "o", " ", "e", "v",
        "e", "r", "y", "o", "n", "e", "!">> }

ChatIds == {"-1001"}

UserIds == {7}

MessageIds == {101}

-----------------------------------------------------------------------------
(* Answers of the Telegram HTTP API, as the tools and steps see them:       *)
(* fetch rejects, response.json() rejects, or a JSON body arrives.          *)

FetchFailed == [name |-> "TypeError", isError |-> TRUE, message |-> "fetch failed"]

JsonFailed ==
    [name |-> "SyntaxError", isError |-> TRUE,
     message |-> "Unexpected end of JSON input"]

ResultMissing(field) ==
    [name |-> "TypeError", isError |-> TRUE,
     message |-> IF field = "status"
                 THEN "Cannot read properties of undefined (reading 'status')"
                 ELSE "Cannot read properties of undefined (reading 'message_id')"]

Descriptions == {"", "Bad Request: chat not found"}

Statuses == {"creator", "administrator", "member"}

\* body: ok, description (optional), result (optional) with its one field
Body(ok, description, result) ==
    [ok |-> ok, description |-> description, result |-> result]

Faults == { [kind |-> "fetchThrows"], [kind |-> "jsonThrows"] }

MemberAnswers ==
    Faults
    \cup { [kind |-> "body", data |-> Body(FALSE, d, None)] :
             d \in {None} \cup { Some(x) : x \in Descriptions } }
    \cup { [kind |-> "body", data |-> Body(TRUE, None, None)] }
    \cup { [kind |-> "body", data |-> Body(TRUE, None, Some([status |-> None]))] }
    \cup { [kind |-> "body", data |-> Body(TRUE, None, Some([status |-> Some(s)]))] :
             s \in Statuses }

SendAnswers ==
    Faults
    \cup { [kind |-> "body", data |-> Body(FALSE, d, None)] :
             d \in {None} \cup { Some(x) : x \in Descriptions } }
    \cup { [kind |-> "body", data |-> Body(TRUE, None, None)] }
    \cup { [kind |-> "body", data |-> Body(TRUE, None, Some([message_id |-> Some(m)]))] :
             m \in MessageIds }

-----------------------------------------------------------------------------
(* Helpers of the JavaScript semantics *)

\* error instanceof Error ? error.message : "Unknown error"
ErrorMessage(e) == IF e.isError THEN e.message ELSE "Unknown error"

\* data.description || fallback : undefined and "" are both falsy
OrElse(description, fallback) ==
    IF description = None \/ description = Some("")
    THEN fallback
    ELSE CHOOSE d \in description : TRUE

-----------------------------------------------------------------------------
(* Completions: an execute function either returns a value or throws *)

Return(v) == [threw |-> FALSE, value |-> Some(v), error |-> None]

Throw(e) == [threw |-> TRUE, value |-> None, error |-> Some(e)]

Thrown(c) == CHOOSE e \in c.error : TRUE

Value(c) == CHOOSE v \in c.value : TRUE

The(opt) == CHOOSE x \in opt : TRUE

-----------------------------------------------------------------------------
(* checkTelegramAdminTool *)

\* mutant: every member of the chat counts as privileged
IsAdminStatusAnyMember(memberStatus) ==
    memberStatus \in {Some("creator"), Some("administrator"), Some("member")}

IsAdminStatus(memberStatus) ==
    memberStatus = Some("creator") \/ memberStatus = Some("administrator")

Verdict(isAdmin, status, error) ==
    [isAdmin |-> isAdmin, status |-> status, error |-> error]

\* the body of the try block
CheckAdminTry(ans) ==
    IF ans.kind = "fetchThrows" THEN Throw(FetchFailed)
    ELSE IF ans.kind = "jsonThrows" THEN Throw(JsonFailed)
    ELSE IF ~ans.data.ok
         THEN Return(Verdict(FALSE, None,
                  Some(OrElse(ans.data.description, "Failed to check admin status"))))
    ELSE IF ans.data.result = None THEN Throw(ResultMissing("status"))
    ELSE LET memberStatus == The(ans.data.result).status
         IN  Return(Verdict(IsAdminStatus(memberStatus), memberStatus, None))

\* mutant: no catch block, a fault of the try block propagates
CheckAdminNoCatch(c) == c

\* the catch block
CheckAdminCatch(c) ==
    IF c.threw
    THEN Return(Verdict(FALSE, None, Some(ErrorMessage(Thrown(c)))))
    ELSE c

CheckAdminExecute(tok, ans) ==
    IF ~tok
    THEN Return(Verdict(FALSE, None, Some("Bot token not configured")))
    ELSE CheckAdminCatch(CheckAdminTry(ans))

\* the getChatMember requests one call issues
CheckAdminFetches(tok) == IF tok THEN 1 ELSE 0

-----------------------------------------------------------------------------
(* sendTelegramMessageTool *)

ToolResult(success, messageId, error) ==
    [success |-> success, messageId |-> messageId, error |-> error]

SendToolTry(ans) ==
    IF ans.kind = "fetchThrows" THEN Throw(FetchFailed)
    ELSE IF ans.kind = "jsonThrows" THEN Throw(JsonFailed)
    ELSE IF ~ans.data.ok
         THEN Return(ToolResult(FALSE, None,
                  Some(OrElse(ans.data.description, "Failed to send message"))))
    ELSE IF ans.data.result = None THEN Throw(ResultMissing("message_id"))
    ELSE Return(ToolResult(TRUE, The(ans.data.result).message_id, None))

SendToolCatch(c) ==
    IF c.threw
    THEN Return(ToolResult(FALSE, None, Some(ErrorMessage(Thrown(c)))))
    ELSE c

SendToolExecute(tok, ans) ==
    IF ~tok
    THEN Return(ToolResult(FALSE, None, Some("Bot token not configured")))
    ELSE SendToolCatch(SendToolTry(ans))

\* mutant: the request is issued before the token is looked at
SendToolFetchesUnchecked(tok, text) == <<text>>

\* the sendMessage requests one call issues, by their text
SendToolFetches(tok, text) == IF tok THEN <<text>> ELSE <<>>

-----------------------------------------------------------------------------
(* sendReply step: its output has no error field *)

StepResult(success, messageId) == [success |-> success, messageId |-> messageId]

SendReplyTry(ans) ==
    IF ans.kind = "fetchThrows" THEN Throw(FetchFailed)
    ELSE IF ans.kind = "jsonThrows" THEN Throw(JsonFailed)
    ELSE IF ~ans.data.ok THEN Return(StepResult(FALSE, None))
    ELSE IF ans.data.result = None THEN Throw(ResultMissing("message_id"))
    ELSE Return(StepResult(TRUE, The(ans.data.result).message_id))

SendReplyCatch(c) == IF c.threw THEN Return(StepResult(FALSE, None)) ELSE c

SendReplyExecute(tok, ans) ==
    IF ~tok
    THEN Return(StepResult(FALSE, None))
    ELSE SendReplyCatch(SendReplyTry(ans))

SendReplyFetches(tok, text) == IF tok THEN <<text>> ELSE <<>>

-----------------------------------------------------------------------------
(* telegramBotAgent: what its instructions ask for *)

IsBlank(ch) == ch = " "

StartsWithCommand(message) ==
    Len(message) >= Len(CommandToken)
    /\ SubSeq(message, 1, Len(CommandToken)) = CommandToken

\* "the message content that comes after the command"
AfterCommand(message) ==
    IF StartsWithCommand(message)
    THEN SubSeq(message, Len(CommandToken) + 1, Len(message))
    ELSE <<>>

RECURSIVE TrimLeft(_)
TrimLeft(text) ==
    IF text # <<>> /\ IsBlank(Head(text)) THEN TrimLeft(Tail(text)) ELSE text

RECURSIVE TrimRight(_)
TrimRight(text) ==
    IF text # <<>> /\ IsBlank(text[Len(text)])
    THEN TrimRight(SubSeq(text, 1, Len(text) - 1))
    ELSE text

Trim(text) == TrimRight(TrimLeft(text))

\* the custom message of a /text command, "without the /text command"
Argument(message) == Trim(AfterCommand(message))

\* The text is the language model's: generate resolves with whatever the
\* model produced from the prompt (the message) and the thread's last
\* messages, and no code looks at it.  A sample of the texts a model gives:
\* the three replies of the instructions, an empty text (the model ends on a
\* tool call), the message echoed, the argument with commentary around it,
\* and a reply given earlier on the thread.
Commentary ==
    <<"S", "u", "r", "e", "!", " ", "H", "e", "r", "e", " ", "i", "s", " ",
      "y", "o", "u", "r", " ", "b", "r", "o", "a", "d", "c", "a", "s", "t",
      ":", " ">>

GeneratedTexts(message, memory) ==
    {DenialText, UsageText, <<>>, message, Argument(message),
     Commentary \o Argument(message)}
    \cup { memory[i].reply : i \in DOMAIN memory }

\* maxSteps: 5 -- the steps one generate call may take, a tool call each
MaxSteps == 5

\* lastMessages: 10 -- the thread memory keeps the latest messages, a user
\* message and a reply per exchange
LastMessages == 10

Remember(memory, exchange) ==
    LET all == Append(memory, exchange)
        keep == LastMessages \div 2
    IN  IF Len(all) > keep THEN SubSeq(all, Len(all) - keep + 1, Len(all)) ELSE all

-----------------------------------------------------------------------------
(* useAgent step *)

\* execute awaits generate outside any try block: a rejection propagates
UseAgentExecute(generated) ==
    IF generated.threw
    THEN generated
    ELSE Return([response |-> Value(generated)])

-----------------------------------------------------------------------------
(* telegramBotWorkflow: .then(useAgent).then(sendReply) *)

UseAgentRunning == pc = "useAgent"

\* mutant: a failed delivery is attempted again
SendReplyRetries ==
    pc = "sendReply" \/ (pc = "done" /\ \E o \in outcome : ~o.success)

SendReplyReady == pc = "sendReply"

RunOver == pc \in {"done", "failed"}

Init ==
    /\ token \in BOOLEAN
    /\ pc = "idle"
    /\ toolPc = "idle"
    /\ req = None
    /\ oracleCalls = 0
    /\ oracleFetches = 0
    /\ verdict = None
    /\ oracleAnswer = None
    /\ response = None
    /\ sends = <<>>
    /\ outcome = None
    /\ sendAnswer = None
    /\ history = <<>>
    /\ toolSends = <<>>
    /\ toolOutcome = None
    /\ toolInput = None

ToolVars == <<toolPc, toolSends, toolOutcome, toolInput>>

\* the workflow is started on an incoming message
Start ==
    /\ pc = "idle"
    /\ Len(history) < MaxRequests
    /\ \E m \in Messages, c \in ChatIds, u \in UserIds :
          req' = Some([message |-> m, chatId |-> c, userId |-> u])
    /\ pc' = "useAgent"
    /\ UNCHANGED <<token, oracleCalls, oracleFetches, verdict, oracleAnswer,
                   response, sends, outcome, sendAnswer, history, ToolVars>>

\* inside generate the model calls checkTelegramAdminTool: without a token
\* execute returns at once, with one it issues the getChatMember request and
\* awaits the answer
OracleCall ==
    /\ UseAgentRunning
    /\ oracleCalls < MaxSteps
    /\ oracleCalls' = oracleCalls + 1
    /\ oracleFetches' = oracleFetches + CheckAdminFetches(token)
    /\ IF CheckAdminFetches(token) = 0
       THEN /\ \E ans \in MemberAnswers :
                  verdict' = CheckAdminExecute(token, ans).value
            /\ oracleAnswer' = None
            /\ pc' = pc
       ELSE /\ pc' = "oraclePending"
            /\ UNCHANGED <<verdict, oracleAnswer>>
    /\ UNCHANGED <<token, req, response, sends, outcome, sendAnswer,
                   history, ToolVars>>

\* the answer arrives (fetch and response.json() settle) and execute returns
OracleResult ==
    /\ pc = "oraclePending"
    /\ \E ans \in MemberAnswers :
          /\ verdict' = CheckAdminExecute(token, ans).value
          /\ oracleAnswer' = Some(ans)
    /\ pc' = "useAgent"
    /\ UNCHANGED <<token, req, oracleCalls, oracleFetches, response, sends,
                   outcome, sendAnswer, history, ToolVars>>

\* generate resolves with the model's text and useAgent returns it
AgentResponds ==
    /\ UseAgentRunning
    /\ \E text \in GeneratedTexts(The(req).message, history) :
          LET done == UseAgentExecute(Return(text))
          IN  response' = Some(Value(done).response)
    /\ pc' = "sendReply"
    /\ UNCHANGED <<token, req, oracleCalls, oracleFetches, verdict, oracleAnswer,
                   sends, outcome, sendAnswer, history, ToolVars>>

\* generate rejects (the model API fails): useAgent throws, the run fails
AgentFails ==
    /\ UseAgentRunning
    /\ LET done == UseAgentExecute(
                      Throw([name |-> "Error", isError |-> TRUE,
                             message |-> "model request failed"]))
       IN  pc' = IF done.threw THEN "failed" ELSE "sendReply"
    /\ UNCHANGED <<token, req, oracleCalls, oracleFetches, verdict, oracleAnswer,
                   response, sends, outcome, sendAnswer, history, ToolVars>>

\* sendReply starts: without a token it returns at once, with one it issues
\* the sendMessage request and awaits the answer
SendReplyCall ==
    /\ SendReplyReady
    /\ sends' = sends \o SendReplyFetches(token, The(response))
    /\ IF SendReplyFetches(token, The(response)) = <<>>
       THEN /\ \E ans \in SendAnswers :
                  outcome' = SendReplyExecute(token, ans).value
            /\ pc' = "done"
       ELSE /\ pc' = "sendPending"
            /\ outcome' = outcome
    /\ sendAnswer' = None
    /\ UNCHANGED <<token, req, oracleCalls, oracleFetches, verdict, oracleAnswer,
                   response, history, ToolVars>>

\* the answer arrives (fetch and response.json() settle) and sendReply returns
SendReplyResult ==
    /\ pc = "sendPending"
    /\ \E ans \in SendAnswers :
          /\ outcome' = SendReplyExecute(token, ans).value
          /\ sendAnswer' = Some(ans)
    /\ pc' = "done"
    /\ UNCHANGED <<token, req, oracleCalls, oracleFetches, verdict, oracleAnswer,
                   response, sends, history, ToolVars>>

\* the values of a run that is over are dropped
Dropped ==
    /\ pc' = "idle"
    /\ req' = None
    /\ oracleCalls' = 0
    /\ oracleFetches' = 0
    /\ verdict' = None
    /\ oracleAnswer' = None
    /\ response' = None
    /\ sends' = <<>>
    /\ outcome' = None
    /\ sendAnswer' = None

\* the run is over; the next run is on a thread of its own (threadId is an
\* input of the run), whose memory is empty
FinishRun ==
    /\ RunOver
    /\ Dropped
    /\ history' = <<>>
    /\ UNCHANGED <<token, ToolVars>>

\* the run is over; the next run is on the same thread, whose memory keeps
\* the exchange
FinishExchange ==
    /\ RunOver
    /\ Dropped
    /\ history' =
          IF pc = "done"
          THEN Remember(history,
                        [message |-> The(req).message,
                         admin   |-> { v.isAdmin : v \in verdict },
                         reply   |-> The(response)])
          ELSE history
    /\ UNCHANGED <<token, ToolVars>>

RunVars ==
    <<pc, req, oracleCalls, oracleFetches, verdict, oracleAnswer, response,
      sends, outcome, sendAnswer, history>>

\* sendTelegramMessageTool is called, whatever the workflow is doing
ToolCall ==
    /\ toolPc = "idle"
    /\ \E text \in {DenialText} :
          /\ toolSends' = SendToolFetches(token, text)
          /\ IF SendToolFetches(token, text) = <<>>
             THEN /\ \E ans \in SendAnswers :
                        toolOutcome' = SendToolExecute(token, ans).value
                  /\ toolPc' = "done"
             ELSE /\ toolPc' = "pending"
                  /\ toolOutcome' = None
    /\ toolInput' = None
    /\ UNCHANGED <<token, RunVars>>

\* the answer arrives and the tool returns
ToolResultArrives ==
    /\ toolPc = "pending"
    /\ \E ans \in SendAnswers :
          /\ toolOutcome' = SendToolExecute(token, ans).value
          /\ toolInput' = Some(ans)
    /\ toolPc' = "done"
    /\ UNCHANGED <<token, toolSends, RunVars>>

\* the caller has the result; the call's values are dropped
ToolReturn ==
    /\ toolPc = "done"
    /\ toolPc' = "idle"
    /\ toolSends' = <<>>
    /\ toolOutcome' = None
    /\ toolInput' = None
    /\ UNCHANGED <<token, RunVars>>

\* runs on threads of their own, and calls of the tool beside them
Next ==
    \/ Start
    \/ OracleCall
    \/ OracleResult
    \/ AgentResponds
    \/ AgentFails
    \/ SendReplyCall
    \/ SendReplyResult
    \/ FinishRun
    \/ ToolCall
    \/ ToolResultArrives
    \/ ToolReturn

Spec == Init /\ [][Next]_vars

\* the runs of one thread, one after the other
NextThread ==
    \/ Start
    \/ OracleCall
    \/ OracleResult
    \/ AgentResponds
    \/ AgentFails
    \/ SendReplyCall
    \/ SendReplyResult
    \/ FinishExchange

SpecThread == Init /\ [][NextThread]_vars

-----------------------------------------------------------------------------
(* Vocabulary of the claims *)

\* the remote answered the admin query ok:true with a privileged status
PrivilegedAnswer(ans) ==
    /\ ans.kind = "body"
    /\ ans.data.ok
    /\ \E r \in ans.data.result :
          r.status = Some("creator") \/ r.status = Some("administrator")

\* the query failed: a fault, ok:false, or ok:true without a result
FailedAnswer(ans) ==
    \/ ans.kind \in {"fetchThrows", "jsonThrows"}
    \/ ans.kind = "body" /\ ~ans.data.ok
    \/ ans.kind = "body" /\ ans.data.ok /\ ans.data.result = None

\* the remote answered the delivery ok:false
Rejected(ans) == ans.kind = "body" /\ ~ans.data.ok

\* the remote answered the delivery ok:false with a description X, X not ""
RejectedWithDescription(ans) ==
    Rejected(ans) /\ ans.data.description \notin {None, Some("")}

\* the error field of a delivery outcome, absent when the outcome has none
ErrorOf(o) == IF "error" \in DOMAIN o THEN o.error ELSE None

Replied == pc \in {"sendReply", "sendPending", "done"} /\ response # None

\* the last call of the oracle has returned
OracleReturned == oracleCalls > 0 /\ pc # "oraclePending"

-----------------------------------------------------------------------------
(* C1: the verdict's isAdmin is true exactly when a getChatMember request   *)
(* was answered ok:true with status "creator" or "administrator"; every     *)
(* other status and every failure gives isAdmin = false.                    *)
C1_IsAdminIffPrivileged ==
    \A v \in verdict :
        v.isAdmin <=> \E ans \in oracleAnswer : PrivilegedAnswer(ans)

C1_Witness ==
    /\ \E v \in verdict : v.isAdmin /\ v.status = Some("administrator")
    /\ OracleReturned

(* C2: the admin oracle fails closed and does not throw: with the token     *)
(* missing, on ok:false, and on a fault of fetch, of JSON parsing or of the *)
(* access to a missing result, it returns isAdmin = false, no status and a  *)
(* non-empty error description.                                             *)
C2_OracleFailsClosed ==
    (OracleReturned /\ (~token \/ \E ans \in oracleAnswer : FailedAnswer(ans))) =>
        /\ verdict # None
        /\ \A v \in verdict :
              /\ ~v.isAdmin
              /\ v.status = None
              /\ v.error # None
              /\ v.error # Some("")

C2_Witness ==
    /\ token
    /\ OracleReturned
    /\ \E ans \in oracleAnswer :
          ans.kind = "body" /\ ans.data.ok /\ ans.data.result = None
    /\ \E v \in verdict : ~v.isAdmin /\ v.error # None

(* C3: whenever the verdict of the run has isAdmin = false, the reply       *)
(* handed to delivery is the fixed denial text.                             *)
C3_NonAdminGetsDenial ==
    (Replied /\ verdict # None /\ \A v \in verdict : ~v.isAdmin)
        => The(response) = DenialText

(* C4: for a verdict with isAdmin = true the reply is the usage text when   *)
(* nothing but whitespace follows "/text", and the trimmed remainder        *)
(* otherwise.                                                               *)
C4_AdminGetsUsageOrArgument ==
    (Replied /\ \E v \in verdict : v.isAdmin)
        => The(response) = IF Argument(The(req).message) = <<>>
                           THEN UsageText
                           ELSE Argument(The(req).message)

(* C5: the stages of a run are strictly ordered: the admin oracle has been  *)
(* queried and has answered before the reply is decided; no delivery is     *)
(* started while useAgent still runs; and the text of the sendMessage       *)
(* request is the response useAgent returned.                               *)
C5_OracleThenReplyThenSend ==
    /\ response # None => (oracleCalls > 0 /\ verdict # None)
    /\ pc \in {"useAgent", "oraclePending"} =>
          (response = None /\ sends = <<>> /\ outcome = None)
    /\ sends # <<>> => (response # None /\ sends = <<The(response)>>)

(* C6: no stage and no tool throws: every invocation ends with a result     *)
(* value, a workflow run with the {success} outcome of sendReply.           *)
C6_NothingThrows ==
    /\ pc # "failed"
    /\ pc = "done" => outcome # None
    /\ toolPc = "done" => toolOutcome # None
    /\ OracleReturned => verdict # None

(* C7: with the token missing, delivery returns success = false and issues  *)
(* no sendMessage request, in the sendReply step and in the tool alike.     *)
C7_NoTokenNoDelivery ==
    ~token =>
        /\ sends = <<>>
        /\ toolSends = <<>>
        /\ pc # "sendPending"
        /\ toolPc # "pending"
        /\ pc = "done" => (outcome # None /\ \A o \in outcome : ~o.success)
        /\ toolPc = "done" =>
              (toolOutcome # None /\ \A o \in toolOutcome : ~o.success)

C7_Witness ==
    /\ ~token
    /\ pc = "done"
    /\ \E o \in outcome : ~o.success
    /\ toolPc = "done"
    /\ \E o \in toolOutcome : ~o.success

(* C8 as stated: on {ok:false, description:X} every delivery path, the      *)
(* sendReply step and sendTelegramMessageTool, returns {success:false,      *)
(* error:X} (taken here for the descriptions X that are not empty).         *)
C8_DescriptionCarriedEverywhere ==
    /\ pc = "done" =>
          \A ans \in sendAnswer :
              RejectedWithDescription(ans) =>
                  /\ outcome # None
                  /\ \A o \in outcome :
                        ~o.success /\ ErrorOf(o) = ans.data.description
    /\ toolPc = "done" =>
          \A ans \in toolInput :
              RejectedWithDescription(ans) =>
                  /\ toolOutcome # None
                  /\ \A o \in toolOutcome :
                        ~o.success /\ ErrorOf(o) = ans.data.description

(* C9: a run issues at most one sendMessage request: a delivery that failed *)
(* is not attempted again and no further message follows it; the request is *)
(* the one of the sendReply step.                                           *)
C9_AtMostOneSend ==
    /\ Len(sends) <= 1
    /\ sends # <<>> => pc \in {"sendPending", "done"}

C9_Witness ==
    /\ pc = "done"
    /\ Len(sends) = 1
    /\ \E o \in outcome : ~o.success

(* C10: the reply depends on the request's message and verdict alone: two   *)
(* requests of a thread with the same message and the same verdict got the  *)
(* same reply, and each request had its verdict queried anew.               *)
C10_ReplyIgnoresHistory ==
    /\ \A i, j \in DOMAIN history :
          (history[i].message = history[j].message
           /\ history[i].admin = history[j].admin)
              => history[i].reply = history[j].reply
    /\ \A i \in DOMAIN history : history[i].admin # None

====
